---------------------------- MODULE Spec2Model ----------------------------
(***************************************************************************)
(* A model of panel/links.py: the registry of Callback/Link declarations   *)
(* (a WeakKeyDictionary keyed by the source object) and the resolution     *)
(* pass that turns the registered links into CustomJS callbacks attached   *)
(* to bokeh models.                                                        *)
(*                                                                         *)
(* Python values are represented as follows.                               *)
(*   - None is the string "None".                                          *)
(*   - A dict is a sequence of <<key, value>> pairs with distinct keys, in *)
(*     iteration order; two dicts are equal when they hold the same pairs. *)
(*   - The param `code` (a Dict that may be None) is a record              *)
(*     [none |-> BOOLEAN, items |-> dict].                                 *)
(*   - A dotted property path "a.b" is the sequence of its segments        *)
(*     <<"a", "b">>, so str.split('.') and '.'.join are the identity on    *)
(*     the representation and a spec is <<prefix, leaf>>.                  *)
(*   - An exception is an outcome string ("ValueError", ...); "ok" is a    *)
(*     normal return.                                                      *)
(***************************************************************************)
EXTENDS Naturals, Sequences, FiniteSets, TLC

VARIABLES
    alive,      \* the objects that have not been garbage collected
    insts,      \* the Callback/Link instances user code holds, by creation order
    registry,   \* Callback.registry: source object -> list of instance ids
    last,       \* the last operation: its name, receiver, outcome, whether it changed the registry
    jscb,       \* per bokeh model, the CustomJS callbacks attached to it, in order
    mprops,     \* per bokeh model, the values of its properties
    held,       \* the objects user code holds a reference to
    hold,       \* state._hold
    blocks,     \* per caller, the number of block_comm() blocks it is inside of
    passes      \* per overlapping resolution pass, its position in _process_callbacks

vars == <<alive, insts, registry, last, jscb, mprops, held, hold, blocks, passes>>

resVars == <<jscb, mprops>>

commVars == <<hold, blocks>>

None == "None"

\* Bound on the number of Callback/Link instances user code constructs.
MaxInst == 3

(***************************************************************************)
(* The objects of the program: view objects (Viewable) and bokeh models.   *)
(***************************************************************************)
Views == {"A", "B", "C"}

\* mX is a bokeh model that is not under the root model.
BkModels == {"mA", "mB", "sA", "gE", "mX"}

\* holoviews objects: an element and the plot (a bokeh ElementPlot) it is
\* rendered as under the root.
Elements == {"E"}

Plots == {"pE"}

\* The HoloViews pane (a Viewable) that renders element E.
Panes == {"H"}

Objs == Views \cup BkModels \cup Elements \cup Plots \cup Panes

(***************************************************************************)
(* The rendered document                                                   *)
(***************************************************************************)
\* root_view.select(Viewable): the views of the tree, in order.
Tree == <<"A", "B", "C", "H">>

\* root_model.select({'type': BkModel}): the bokeh models under the root.
RootModels == <<"mA", "mB", "sA", "gE">>

\* obj._models[root_model.ref['id']][0]: the model a view is rendered as under
\* this root, None for a view that has not been rendered.
ViewModel(obj) ==
    CASE obj = "A" -> "mA"
      [] obj = "B" -> "mB"
      [] obj = "H" -> "gE"
      [] OTHER -> None

\* generate_panel_bokeh_map(root_model, hv_views).get(obj, []): the plots of
\* the panes of the tree that render element obj.
PanelBokehMap(obj) == IF obj = "E" THEN <<"pE">> ELSE << >>

\* pane._plots[ref][0]: the plot of a HoloViews pane; any other object is
\* taken as it is.
PlotOf(obj) == IF obj \in Panes THEN "pE" ELSE obj

\* plot.state and plot.handles of plot pE.
PlotState(p) == "gE"

Handles(p) == << <<"plot", "gE">> >>

\* The property names of a bokeh model.
PropNames == {"value", "title", "text", "label", "name"}

\* The attributes of the models that hold a model or None: mA.sub is the model
\* sA, the `sub` of every other model is None.
HasAttr(m, seg) == seg = "sub" \/ seg \in PropNames

AttrModel(m, seg) == IF m = "mA" /\ seg = "sub" THEN "sA" ELSE None

\* The property values the models are rendered with.
InitProps == [value |-> 1, title |-> 2, text |-> 0, label |-> 0, name |-> 3]

\* The validators of the properties of the models: `label` takes values up
\* to 2, every other property any value.
Valid(m, prop, v) == prop = "label" => v <= 2

\* Reactive._rename of the views: the parameter `name` is the model property `title`.
Rename(obj, prop) ==
    IF obj \in Views /\ prop = "name" THEN "title" ELSE prop

(***************************************************************************)
(* Dicts                                                                   *)
(***************************************************************************)
Pairs(d) == {d[k] : k \in 1..Len(d)}

DictEq(d1, d2) == Pairs(d1) = Pairs(d2)

NoCode == [none |-> TRUE, items |-> <<>>]

CodeEq(c1, c2) == c1.none = c2.none /\ DictEq(c1.items, c2.items)

\* Truthiness of link.code: None and {} are both falsy.
CodeTruthy(c) == ~c.none /\ c.items # <<>>

(***************************************************************************)
(* Callback and Link instances                                             *)
(***************************************************************************)
\* Link defines the `target` property; the base Callback has no such
\* attribute. SubLink is a subclass of Link that adds nothing.
HasTargetAttr(ins) == ins.type \in {"Link", "SubLink"}

\* Callback._requires_target = False, Link._requires_target = True (inherited
\* by SubLink).
RequiresTarget(type) == type \in {"Link", "SubLink"}

\* A weak reference called after its referent died returns None.
Deref(o, al) == IF o \in al THEN o ELSE None

\* Callback.source: self._source() if self._source else None
SourceOf(ins, al) == IF ins.source = None THEN None ELSE Deref(ins.source, al)

\* Link.target: self._target() if self._target else None
TargetOf(ins, al) == IF ins.target = None THEN None ELSE Deref(ins.target, al)

\* {k: v for k, v in self.get_param_values() if k != 'name'} == the same of link
ParamsEq(a, b) ==
    /\ DictEq(a.args, b.args)
    /\ CodeEq(a.code, b.code)
    /\ DictEq(a.properties, b.properties)

(***************************************************************************)
(* Registration: Callback.init, Link.link, Link.unlink                     *)
(***************************************************************************)
\* The loop of init()/link() over the links registered for the source:
\* "present" when an equivalent link is found (the method returns), "absent"
\* when the loop ends, "AttributeError" when `link.target` is read on a link
\* that has no such attribute (`and` evaluates left to right and stops at the
\* first false operand).
RECURSIVE ScanLinks(_, _, _, _, _)
ScanLinks(links, k, self, ins, al) ==
    IF k > Len(links) THEN "absent"
    ELSE LET link == ins[links[k]] IN
         IF link.type = self.type /\ SourceOf(link, al) = SourceOf(self, al)
         THEN IF ~HasTargetAttr(link) THEN "AttributeError"
              ELSE IF TargetOf(link, al) = TargetOf(self, al) /\ ParamsEq(self, link)
                   THEN "present"
                   ELSE ScanLinks(links, k + 1, self, ins, al)
         ELSE ScanLinks(links, k + 1, self, ins, al)

\* registry[key] = value on a WeakKeyDictionary.
RegPut(reg, key, value) ==
    [k \in (DOMAIN reg) \cup {key} |-> IF k = key THEN value ELSE reg[k]]

\* Callback.init of instance i: the registry afterwards and the outcome.
\* `None in registry` is False and `registry[None] = ...` raises TypeError
\* (no weak reference to None can be made).
InitOp(reg, ins, al, i) ==
    LET self == ins[i]
        s == SourceOf(self, al)
    IN  IF s \in DOMAIN reg
        THEN LET found == ScanLinks(reg[s], 1, self, ins, al) IN
             CASE found = "present" -> [reg |-> reg, outcome |-> "ok"]
               [] found = "AttributeError" -> [reg |-> reg, outcome |-> "AttributeError"]
               [] OTHER -> [reg |-> RegPut(reg, s, Append(reg[s], i)), outcome |-> "ok"]
        ELSE IF s = None
             THEN [reg |-> reg, outcome |-> "TypeError"]
             ELSE [reg |-> RegPut(reg, s, <<i>>), outcome |-> "ok"]

\* LinkTail with its scan for an equivalent entry left out.
LinkTailAppend(reg, ins, al, i) ==
    LET s == SourceOf(ins[i], al) IN
    [reg |-> RegPut(reg, s, Append(reg[s], i)), outcome |-> "ok"]

\* The body of Link.link after its call of self.init(): the same scan again.
LinkTail(reg, ins, al, i) == InitOp(reg, ins, al, i)

\* Link.link: self.init(), then the scan-and-append of its own body.
LinkOp(reg, ins, al, i) ==
    LET r == InitOp(reg, ins, al, i) IN
    IF r.outcome # "ok" THEN r ELSE LinkTail(r.reg, ins, al, i)

\* `self in links` and links.index(self): Parameterized defines no __eq__,
\* so both compare by identity. The position of instance i in links, 0 if absent.
IndexOf(links, i) ==
    IF \E k \in 1..Len(links) : links[k] = i
    THEN CHOOSE k \in 1..Len(links) : links[k] = i /\ \A j \in 1..(k - 1) : links[j] # i
    ELSE 0

\* links.pop(k)
PopAt(links, k) == [j \in 1..(Len(links) - 1) |-> IF j < k THEN links[j] ELSE links[j + 1]]

\* UnlinkOp with `self in links` and links.index(self) comparing the links by
\* their type, source, target and parameters instead of by identity.
UnlinkOpByValue(reg, ins, al, i) ==
    LET s == SourceOf(ins[i], al)
        Same(e) == /\ ins[e].type = ins[i].type
                   /\ TargetOf(ins[e], al) = TargetOf(ins[i], al)
                   /\ ParamsEq(ins[e], ins[i])
    IN  IF s \notin DOMAIN reg
        THEN [reg |-> reg, outcome |-> "TypeError"]
        ELSE LET hits == {k \in 1..Len(reg[s]) : Same(reg[s][k])} IN
             IF hits = {} THEN [reg |-> reg, outcome |-> "ok"]
             ELSE LET k == CHOOSE h \in hits : \A j \in hits : h <= j
                  IN  [reg |-> RegPut(reg, s, PopAt(reg[s], k)), outcome |-> "ok"]

\* Link.unlink: registry.get(None) raises TypeError (no weak reference to None),
\* registry.get of a missing key is None and `self in None` raises TypeError.
UnlinkOp(reg, ins, al, i) ==
    LET s == SourceOf(ins[i], al) IN
    IF s \notin DOMAIN reg
    THEN [reg |-> reg, outcome |-> "TypeError"]
    ELSE LET k == IndexOf(reg[s], i) IN
         IF k = 0 THEN [reg |-> reg, outcome |-> "ok"]
         ELSE [reg |-> RegPut(reg, s, PopAt(reg[s], k)), outcome |-> "ok"]

(***************************************************************************)
(* The arguments user code passes                                          *)
(***************************************************************************)
Types == {"Callback", "Link", "SubLink"}

P1 == << <<(<<"value">>), (<<"text">>)>> >>

P2 == << <<(<<"value">>), (<<"text">>)>>, <<(<<"name">>), (<<"label">>)>> >>

EmptyDict == << >>

NoArg == [type |-> "None", source |-> None, target |-> None, args |-> << >>,
          code |-> NoCode, properties |-> << >>, dropped |-> FALSE]

\* The callers of block_comm() and the bound on the blocks one caller nests.
Callers == {"c1", "c2", "c3"}

MaxDepth == 3

\* The resolution passes that may overlap; a pass that is not running.
PassIds == {1, 2}

Idle == [pc |-> "idle", found |-> << >>, k |-> 0, specs |-> << >>, s |-> 0, src |-> None,
         overlapped |-> FALSE]

NoLast == [op |-> "none", inst |-> 0, arg |-> NoArg, outcome |-> "ok", changed |-> FALSE,
           gens |-> << >>]

Init ==
    /\ alive = Objs
    /\ insts = << >>
    /\ registry = << >>
    /\ last = NoLast
    /\ jscb = [m \in BkModels |-> << >>]
    /\ mprops = [m \in BkModels |-> InitProps]
    /\ held = Objs
    /\ hold = FALSE
    /\ blocks = [c \in Callers |-> 0]
    /\ passes = [p \in PassIds |-> Idle]

\* The instance a constructor call builds. Callback.__init__ accepts `target`
\* and drops it; Link.__init__ keeps a weak reference to it. Callback has no
\* `properties` parameter. `dropped` tells that user code has dropped its
\* reference to the instance.
NewInst(type, source, target, args, code, props) ==
    [type |-> type, source |-> source,
     target |-> IF type = "Callback" THEN None ELSE target,
     args |-> args, code |-> code,
     properties |-> IF type = "Callback" THEN EmptyDict ELSE props,
     dropped |-> FALSE]

\* ConstructError without the check of Link.__init__ for a required target.
ConstructErrorSourceOnly(type, source, target) == source = None

\* The checks of Link.__init__ (a required target) and Callback.__init__ (a
\* source) that raise ValueError before anything is stored.
ConstructError(type, source, target) ==
    \/ (RequiresTarget(type) /\ target = None)
    \/ source = None

\* type(source, target, args=..., code=..., properties=...): the checks, then
\* self.init(). A constructor that raises hands no instance to the caller.
Construct(type, source, target, args, code, props) ==
    LET new == NewInst(type, source, target, args, code, props)
        i == Len(insts) + 1
        r == InitOp(registry, Append(insts, new), alive, i)
        outcome == IF ConstructError(type, source, target) THEN "ValueError" ELSE r.outcome
    IN  /\ Len(insts) < MaxInst
        /\ source \in held \cup {None}
        /\ target \in held \cup {None}
        /\ \A j \in 1..Len(args) : args[j][2] \in Objs => args[j][2] \in held
        /\ IF outcome = "ok"
           THEN insts' = Append(insts, new) /\ registry' = r.reg
           ELSE UNCHANGED <<insts, registry>>
        /\ last' = [op |-> "construct", inst |-> IF outcome = "ok" THEN i ELSE 0,
                    arg |-> new, outcome |-> outcome, changed |-> registry' # registry, gens |-> << >>]
        /\ UNCHANGED <<alive, held, resVars, commVars, passes>>

\* insts[i].init()
InitCall(i) ==
    LET r == InitOp(registry, insts, alive, i) IN
    /\ ~insts[i].dropped
    /\ registry' = r.reg
    /\ last' = [op |-> "init", inst |-> i, arg |-> insts[i], outcome |-> r.outcome,
                changed |-> registry' # registry, gens |-> << >>]
    /\ UNCHANGED <<alive, held, insts, resVars, commVars, passes>>

\* insts[i].link()
LinkCall(i) ==
    LET r == LinkOp(registry, insts, alive, i) IN
    /\ insts[i].type = "Link" /\ ~insts[i].dropped
    /\ registry' = r.reg
    /\ last' = [op |-> "link", inst |-> i, arg |-> insts[i], outcome |-> r.outcome,
                changed |-> registry' # registry, gens |-> << >>]
    /\ UNCHANGED <<alive, held, insts, resVars, commVars, passes>>

\* insts[i].unlink()
Unlink(i) ==
    LET r == UnlinkOp(registry, insts, alive, i) IN
    /\ insts[i].type = "Link" /\ ~insts[i].dropped
    /\ registry' = r.reg
    /\ last' = [op |-> "unlink", inst |-> i, arg |-> insts[i], outcome |-> r.outcome,
                changed |-> registry' # registry, gens |-> << >>]
    /\ UNCHANGED <<alive, held, insts, resVars, commVars, passes>>

\* insts[i].properties = p
SetProperties(i, p) ==
    /\ insts[i].type = "Link" /\ ~insts[i].dropped
    /\ insts[i].properties # p
    /\ insts' = [insts EXCEPT ![i].properties = p]
    /\ last' = [op |-> "set", inst |-> i, arg |-> insts'[i], outcome |-> "ok",
                changed |-> FALSE, gens |-> << >>]
    /\ UNCHANGED <<alive, held, registry, resVars, commVars, passes>>

\* The objects the args of an instance refer to (strong references).
ArgObjs(ins) == {ins.args[j][2] : j \in 1..Len(ins.args)} \cap Objs

\* The objects that stay alive: those user code holds and those in the args
\* of an instance that user code holds or that is in the registry list of an
\* object that stays alive (the lists of a WeakKeyDictionary are strong
\* references); source and target are weak references and keep nothing
\* alive. Everything else is collected at once (reference counting).
RECURSIVE Collect(_, _, _, _)
Collect(al, hd, reg, ins) ==
    LET listed(i) == \E k \in (DOMAIN reg) \cap al : \E j \in 1..Len(reg[k]) : reg[k][j] = i
        keep == {o \in al : \/ o \in hd
                            \/ \E i \in 1..Len(ins) :
                                  /\ o \in ArgObjs(ins[i])
                                  /\ (~ins[i].dropped \/ listed(i))}
    IN  IF keep = al THEN al ELSE Collect(keep, hd, reg, ins)

\* User code drops its last reference to object o. An object that is
\* collected is gone for its weak references, and the WeakKeyDictionary drops
\* its key.
Destroy(o) ==
    /\ o \in held
    /\ held' = held \ {o}
    /\ alive' = Collect(alive, held', registry, insts)
    /\ registry' = [k \in (DOMAIN registry) \cap alive' |-> registry[k]]
    /\ last' = [op |-> "destroy", inst |-> 0, arg |-> [NoArg EXCEPT !.source = o],
                outcome |-> "ok", changed |-> registry' # registry, gens |-> << >>]
    /\ UNCHANGED <<insts, resVars, commVars, passes>>

\* User code drops its reference to instance i.
Drop(i) ==
    /\ ~insts[i].dropped
    /\ insts' = [insts EXCEPT ![i].dropped = TRUE]
    /\ alive' = Collect(alive, held, registry, insts')
    /\ registry' = [k \in (DOMAIN registry) \cap alive' |-> registry[k]]
    /\ last' = [op |-> "drop", inst |-> i, arg |-> insts'[i], outcome |-> "ok",
                changed |-> registry' # registry, gens |-> << >>]
    /\ UNCHANGED <<held, resVars, commVars, passes>>

(***************************************************************************)
(* Registration by construction, init(), link() and unlink() alone         *)
(***************************************************************************)
LinkSources == {"A", "B", None}

LinkTargets == {"B", "C", None}

NextLinks ==
    \/ \E s \in LinkSources, g \in LinkTargets : Construct("Link", s, g, EmptyDict, NoCode, P1)
    \/ \E s \in LinkSources : Construct("Callback", s, None, EmptyDict, NoCode, EmptyDict)
    \/ \E i \in 1..Len(insts) : InitCall(i)
    \/ \E i \in 1..Len(insts) : LinkCall(i)
    \/ \E i \in 1..Len(insts) : Unlink(i)

SpecLinks == Init /\ [][NextLinks]_vars

(***************************************************************************)
(* Registration with parameters reassigned and objects collected           *)
(***************************************************************************)
RegSources == {"A", "B", None}

RegTargets == {"C", None}

RegProperties == {P1, P2}

NextReg ==
    \/ \E s \in RegSources, g \in RegTargets, p \in RegProperties :
          Construct("Link", s, g, EmptyDict, NoCode, p)
    \/ \E i \in 1..Len(insts) : Unlink(i)
    \/ \E i \in 1..Len(insts), p \in RegProperties : SetProperties(i, p)
    \/ \E o \in Views : Destroy(o)

SpecReg == Init /\ [][NextReg]_vars

(***************************************************************************)
(* CallbackGenerator                                                       *)
(***************************************************************************)
SeqToSet(q) == {q[k] : k \in 1..Len(q)}

\* getattr(model, spec) for each segment of a path prefix.
RECURSIVE Drill(_, _, _)
Drill(model, prefix, k) ==
    IF k > Len(prefix) THEN [err |-> "ok", model |-> model]
    ELSE IF model = None \/ ~HasAttr(model, prefix[k])
         THEN [err |-> "AttributeError", model |-> None]
         ELSE IF prefix[k] = "sub"
              THEN Drill(AttrModel(model, prefix[k]), prefix, k + 1)
              ELSE [err |-> "AttributeError", model |-> None]

\* CallbackGenerator._resolve_model. A plot (which exists only when holoviews
\* is loaded) gives its state for no model_spec, else the handle named by the
\* first segment; a view gives its model under this root, a bokeh model
\* itself, anything else None; then the drill-down of the remaining path
\* (<< >> is a model_spec of None).
ResolveModel(obj, prefix) ==
    IF obj \in Plots
    THEN IF prefix = << >> THEN [err |-> "ok", model |-> PlotState(obj)]
         ELSE LET hits == {j \in 1..Len(Handles(obj)) : Handles(obj)[j][1] = prefix[1]} IN
              IF hits = {} THEN [err |-> "KeyError", model |-> None]
              ELSE Drill(Handles(obj)[CHOOSE j \in hits : TRUE][2], Tail(prefix), 1)
    ELSE LET model == IF obj \in Views \cup Panes THEN ViewModel(obj)
                      ELSE IF obj \in BkModels THEN obj
                      ELSE None
         IN  Drill(model, prefix, 1)

\* A dotted path as a spec <<prefix, leaf>>: the segments before the last and
\* the last; a path of one segment has no prefix and its leaf is renamed for
\* a Reactive object.
PathSpec(path, obj) ==
    IF Len(path) > 1
    THEN [prefix |-> SubSeq(path, 1, Len(path) - 1), leaf |-> path[Len(path)]]
    ELSE [prefix |-> << >>, leaf |-> Rename(obj, path[1])]

NoSpec == [prefix |-> << >>, leaf |-> None]

\* JSCallbackGenerator._get_specs: the loop over link.code.items() rebinds
\* src_spec and code, and the one return after the loop yields the last entry
\* only. link.code = None has no items() (AttributeError); an empty dict leaves
\* src_spec unbound (UnboundLocalError).
JSCallbackGetSpecs(link, source) ==
    IF link.code.none THEN [err |-> "AttributeError", specs |-> << >>]
    ELSE IF link.code.items = << >> THEN [err |-> "UnboundLocalError", specs |-> << >>]
    ELSE LET e == link.code.items[Len(link.code.items)] IN
         [err |-> "ok",
          specs |-> << [src |-> PathSpec(e[1], source), tgt |-> NoSpec,
                        code |-> [kind |-> "snippet", src |-> e[2], tgt |-> None]] >>]

\* JSLinkCallbackGenerator._get_specs: the code entries when link.code is
\* truthy, else one spec per entry of link.properties, with no code.
JSLinkGetSpecs(link, source, target) ==
    IF CodeTruthy(link.code) THEN JSCallbackGetSpecs(link, source)
    ELSE [err |-> "ok",
          specs |-> [k \in 1..Len(link.properties) |->
                       [src |-> PathSpec(link.properties[k][1], source),
                        tgt |-> PathSpec(link.properties[k][2], target),
                        code |-> [kind |-> "none", src |-> None, tgt |-> None]]]]

\* GeneratorOf with a type that has no entry of its own served by the entry
\* of its parent type.
GeneratorOfParent(type) ==
    IF type \in {"Link", "SubLink"} THEN "JSLinkCallbackGenerator" ELSE "JSCallbackGenerator"

\* Callback._callbacks[type]: the one dict of the class Callback, keyed by
\* the class that called register_callback (Callback and Link at import);
\* None stands for the KeyError of a type that is no key.
GeneratorOf(type) ==
    CASE type = "Link" -> "JSLinkCallbackGenerator"
      [] type = "Callback" -> "JSCallbackGenerator"
      [] OTHER -> None

GetSpecs(gen, link, source, target) ==
    IF gen = "JSLinkCallbackGenerator" THEN JSLinkGetSpecs(link, source, target)
    ELSE JSCallbackGetSpecs(link, source)

\* The dedup guard: a callback tagged with the link's id is among the
\* js_property_callbacks of the source model.
AlreadyAttachedNever(cbs, lid) == FALSE

\* AlreadyAttached looking at the newest callback of the model only.
AlreadyAttachedNewest(cbs, lid) == cbs # << >> /\ cbs[Len(cbs)].tag = lid

AlreadyAttached(cbs, lid) == \E k \in 1..Len(cbs) : cbs[k].tag = lid

\* references[k] = v
RefPut(refs, k, v) == [x \in (DOMAIN refs) \cup {k} |-> IF x = k THEN v ELSE refs[x]]

\* dict(link.args, **arg_overrides)
MergedArgs(args, overrides) ==
    LET over(k) == \E j \in 1..Len(overrides) : overrides[j][1] = k
        val(k) == overrides[CHOOSE j \in 1..Len(overrides) : overrides[j][1] = k][2]
        keep(e) == \A j \in 1..Len(args) : args[j][1] # e[1]
    IN  [j \in 1..Len(args) |-> IF over(args[j][1]) THEN <<args[j][1], val(args[j][1])>>
                                  ELSE args[j]]
        \o SelectSeq(overrides, keep)

\* The loop over the merged args: an object that resolves to a model is
\* referenced by that model; a value that resolves to nothing is passed as it
\* is unless it is a Parameterized (a view or a holoviews element).
RECURSIVE AddArgs(_, _, _)
AddArgs(refs, args, k) ==
    IF k > Len(args) THEN refs
    ELSE LET key == args[k][1]
             v == args[k][2]
             m == ResolveModel(v, << >>).model
         IN  IF m # None THEN AddArgs(RefPut(refs, key, m), args, k + 1)
             ELSE IF v \notin Views \cup Panes \cup Elements
                  THEN AddArgs(RefPut(refs, key, v), args, k + 1)
             ELSE AddArgs(refs, args, k + 1)

\* Reference keys that carry the target_ prefix, and the key without it (k[7:]).
TargetPrefixed == {"target_x", "target_y", "target_plot"}

Strip(k) ==
    CASE k = "target_x" -> "x"
      [] k = "target_y" -> "y"
      [] OTHER -> "plot"

\* prefix + k for the handle names of the plots.
WithPrefix(prefix, k) ==
    CASE prefix = "source_" -> "source_plot"
      [] prefix = "target_" -> "target_plot"
      [] OTHER -> k

\* The handles of plot p are added to the references under prefix + name,
\* unless the key is taken.
RECURSIVE AddHandles(_, _, _, _)
AddHandles(refs, p, prefix, k) ==
    IF k > Len(Handles(p)) THEN refs
    ELSE LET key == WithPrefix(prefix, Handles(p)[k][1]) IN
         AddHandles(IF key \in DOMAIN refs THEN refs ELSE RefPut(refs, key, Handles(p)[k][2]),
                    p, prefix, k + 1)

\* The holoviews part of _init_callback: the handles of the plot of the
\* source, prefixed source_ for a link that has a target, and the handles of
\* the plot of the target, prefixed target_.
HvRefs(refs, link, source, target) ==
    LET src == PlotOf(source)
        tgt == PlotOf(target)
        prefix == IF HasTargetAttr(link) THEN "source_" ELSE ""
        r1 == IF src \in Plots THEN AddHandles(refs, src, prefix, 1) ELSE refs
    IN  IF tgt \in Plots THEN AddHandles(r1, tgt, "target_", 1) ELSE r1

\* ProcessReferences with a key target_<n> whose <n> is taken dropped.
ProcessReferencesDropTaken(gen, refs) ==
    IF gen # "JSLinkCallbackGenerator" THEN refs
    ELSE LET moved == {k \in (DOMAIN refs) \cap TargetPrefixed : Strip(k) \notin DOMAIN refs}
             kept == (DOMAIN refs) \ TargetPrefixed
         IN  [x \in kept \cup {Strip(k) : k \in moved} |->
                IF x \in kept THEN refs[x]
                ELSE refs[CHOOSE k \in moved : Strip(k) = x]]

\* JSLinkCallbackGenerator._process_references: a key target_<n> (other than
\* `target`) whose <n> is not a key is renamed to <n>; every other key stays.
\* The base generator leaves the references alone.
ProcessReferences(gen, refs) ==
    IF gen # "JSLinkCallbackGenerator" THEN refs
    ELSE LET moved == {k \in (DOMAIN refs) \cap TargetPrefixed : Strip(k) \notin DOMAIN refs}
             kept == (DOMAIN refs) \ moved
         IN  [x \in kept \cup {Strip(k) : k \in moved} |->
                IF x \in kept THEN refs[x]
                ELSE refs[CHOOSE k \in moved : Strip(k) = x]]

\* JSLinkCallbackGenerator._initialize_models without its raise.
InitializeModelsNoRaise(gen, link, props, srcModel, srcLeaf, tgtModel, tgtLeaf) ==
    IF gen # "JSLinkCallbackGenerator" THEN [err |-> "ok", props |-> props]
    ELSE IF tgtModel # None /\ srcLeaf # None /\ tgtLeaf # None
         THEN IF srcLeaf \notin PropNames
              THEN [err |-> "AttributeError", props |-> props]
              ELSE IF ~Valid(tgtModel, tgtLeaf, props[srcModel][srcLeaf])
                   THEN [err |-> "ValueError", props |-> props]
                   ELSE [err |-> "ok",
                         props |-> [props EXCEPT ![tgtModel][tgtLeaf] = props[srcModel][srcLeaf]]]
         ELSE [err |-> "ok", props |-> props]

\* _initialize_models. JSLinkCallbackGenerator copies the source property to
\* the target property when there is a target model and both leaves (setattr
\* on a model validates the value and raises ValueError for one the property
\* does not take), and raises ValueError when the target model is None and
\* link.code is falsy.
\* The base generator's hook does nothing.
InitializeModels(gen, link, props, srcModel, srcLeaf, tgtModel, tgtLeaf) ==
    IF gen # "JSLinkCallbackGenerator" THEN [err |-> "ok", props |-> props]
    ELSE IF tgtModel # None /\ srcLeaf # None /\ tgtLeaf # None
         THEN IF srcLeaf \notin PropNames
              THEN [err |-> "AttributeError", props |-> props]
              ELSE IF ~Valid(tgtModel, tgtLeaf, props[srcModel][srcLeaf])
                   THEN [err |-> "ValueError", props |-> props]
                   ELSE [err |-> "ok",
                         props |-> [props EXCEPT ![tgtModel][tgtLeaf] = props[srcModel][srcLeaf]]]
         ELSE IF tgtModel = None /\ ~CodeTruthy(link.code)
              THEN [err |-> "ValueError", props |-> props]
              ELSE [err |-> "ok", props |-> props]

\* JSLinkCallbackGenerator._get_code: the default snippet, which reads
\* source[src], validates against target.properties[tgt] and assigns target[tgt].
GetCode(srcLeaf, tgtLeaf) == [kind |-> "default", src |-> srcLeaf, tgt |-> tgtLeaf]

\* JsDefault with the value assigned without validation.
JsDefaultNoValidate(code, refs, props) ==
    IF "target" \notin DOMAIN refs \/ refs["target"] \notin BkModels THEN props
    ELSE IF refs["source"] \notin BkModels THEN props
    ELSE [props EXCEPT ![refs["target"]][code.tgt] = props[refs["source"]][code.src]]

\* The default snippet when it runs in the browser:
\*   value = source[src];
\*   try { property = target.properties[tgt];
\*         if (property !== undefined) { property.validate(value); } }
\*   catch(err) { console.log(...); return; }
\*   target[tgt] = value
\* A `target` that is no model throws inside the try; a `source` that is no
\* model yields undefined, which is left out here.
JsDefault(code, refs, props) ==
    IF "target" \notin DOMAIN refs \/ refs["target"] \notin BkModels THEN props
    ELSE IF refs["source"] \notin BkModels THEN props
    ELSE LET value == props[refs["source"]][code.src] IN
         IF ~Valid(refs["target"], code.tgt, value) THEN props
         ELSE [props EXCEPT ![refs["target"]][code.tgt] = value]

\* The callbacks of model m for a change of property p run in the order
\* they were attached; a snippet of user code is opaque and changes nothing here.
RECURSIVE RunCallbacks(_, _, _, _)
RunCallbacks(cbs, p, props, k) ==
    IF k > Len(cbs) THEN props
    ELSE RunCallbacks(cbs, p,
                      IF cbs[k].event = p /\ cbs[k].code.kind = "default"
                      THEN JsDefault(cbs[k].code, cbs[k].refs, props) ELSE props,
                      k + 1)

\* BaseRefs with the target model under `source` and the source model under `target`.
BaseRefsSwapped(link, srcModel, tgtModel) ==
    LET own == IF link.type = "Callback" THEN << >>
               ELSE [x \in {"properties"} |-> link.properties]
        withSrc == RefPut(RefPut(own, "target", srcModel), "cb_obj", srcModel)
    IN  IF tgtModel # None THEN RefPut(withSrc, "source", tgtModel) ELSE withSrc

\* The references of a callback before the args are added: the parameters of
\* the link other than source, target, name, code and args (`properties` for
\* a Link), source and cb_obj, and target when a target model was resolved.
BaseRefs(link, srcModel, tgtModel) ==
    LET own == IF link.type = "Callback" THEN << >>
               ELSE [x \in {"properties"} |-> link.properties]
        withSrc == RefPut(RefPut(own, "source", srcModel), "cb_obj", srcModel)
    IN  IF tgtModel # None THEN RefPut(withSrc, "target", tgtModel) ELSE withSrc

\* The state a resolution pass works on: the callbacks attached to the
\* models, the property values of the models, the exception raised so far
\* ("ok" for none) and the number of listeners attached by this pass.
Failed(st, err) == [st EXCEPT !.outcome = err]

\* CallbackGenerator._init_callback for one spec, after the dedup guard: the
\* references, the target model, _initialize_models, _process_references, the
\* code, and the CustomJS attached to the source model.
InitCallbackTail(st, gen, link, lid, source, target, spec, overrides, srcModel) ==
    LET tgt == IF RequiresTarget(link.type)
               THEN ResolveModel(target, spec.tgt.prefix)
               ELSE [err |-> "ok", model |-> None]
    IN
    IF tgt.err # "ok" THEN Failed(st, tgt.err)
    ELSE LET refs == HvRefs(AddArgs(BaseRefs(link, srcModel, tgt.model),
                                    MergedArgs(link.args, overrides), 1),
                            link, source, target)
             ini == InitializeModels(gen, link, st.mprops, srcModel, spec.src.leaf,
                                     tgt.model, spec.tgt.leaf)
             code == IF spec.code.kind = "none"
                     THEN GetCode(spec.src.leaf, spec.tgt.leaf)
                     ELSE spec.code
             cb == [event |-> spec.src.leaf, tag |-> lid, code |-> code,
                    refs |-> ProcessReferences(gen, refs)]
         IN  IF ini.err # "ok" THEN Failed(st, ini.err)
             ELSE [st EXCEPT !.mprops = ini.props,
                             !.jscb[srcModel] = Append(@, cb),
                             !.made = @ + 1]

\* CallbackGenerator._init_callback for one spec: the source model is
\* resolved, the dedup guard returns if the link is attached to it already,
\* and the rest follows.
InitCallback(st, gen, link, lid, source, target, spec, overrides) ==
    LET src == ResolveModel(source, spec.src.prefix) IN
    IF src.err # "ok" THEN Failed(st, src.err)
    ELSE IF src.model = None THEN Failed(st, "AttributeError")
    ELSE IF AlreadyAttached(st.jscb[src.model], lid) THEN st
    ELSE InitCallbackTail(st, gen, link, lid, source, target, spec, overrides, src.model)

\* The loop of CallbackGenerator.__init__ over the specs; an exception ends it.
RECURSIVE InitSpecs(_, _, _, _, _, _, _, _, _)
InitSpecs(st, gen, link, lid, source, target, specs, overrides, k) ==
    IF k > Len(specs) \/ st.outcome # "ok" THEN st
    ELSE InitSpecs(InitCallback(st, gen, link, lid, source, target, specs[k], overrides),
                   gen, link, lid, source, target, specs, overrides, k + 1)

\* CallbackGenerator.__init__: validate() (a no-op), _get_specs, then
\* _init_callback for every spec.
Generator(st, gen, link, lid, source, target, overrides) ==
    LET g == GetSpecs(gen, link, source, target) IN
    IF g.err # "ok" THEN Failed(st, g.err)
    ELSE InitSpecs(st, gen, link, lid, source, target, g.specs, overrides, 1)

(***************************************************************************)
(* Callback._process_callbacks                                             *)
(***************************************************************************)
\* linkable: the views of the tree, then the models under the root.
Linkable(al) ==
    LET live(o) == o \in al IN SelectSeq(Tree \o RootModels, live)

\* getattr(link, 'target', None)
TargetOrNone(ins, al) == IF HasTargetAttr(ins) THEN TargetOf(ins, al) ELSE None

\* RegistryGet as a setdefault: a missing key is added with the default.
RegistryGetSetDefault(reg, key) ==
    IF key \in DOMAIN reg THEN [reg |-> reg, value |-> reg[key]]
    ELSE [reg |-> RegPut(reg, key, << >>), value |-> << >>]

\* cls.registry.get(key, []): the list under the key or the default; the
\* registry is left as it is.
RegistryGet(reg, key) ==
    [reg |-> reg, value |-> IF key \in DOMAIN reg THEN reg[key] ELSE << >>]

\* The registry after the lookups of a pass for every linkable object.
RECURSIVE RegistryAfter(_, _, _)
RegistryAfter(reg, linkable, k) ==
    IF k > Len(linkable) THEN reg
    ELSE RegistryAfter(RegistryGet(reg, linkable[k]).reg, linkable, k + 1)

\* FoundOf without the test of the target.
FoundOfUnfiltered(reg, ins, al, src) ==
    LET links == RegistryGet(reg, src).value IN
    [k \in 1..Len(links) |->
       [lid |-> links[k], src |-> src, tgt |-> TargetOrNone(ins[links[k]], al)]]

\* FoundOf with the list of the source scanned from its newest entry.
FoundOfNewestFirst(reg, ins, al, src) ==
    LET old == IF src \in DOMAIN reg THEN reg[src] ELSE << >>
        links == [k \in 1..Len(old) |-> old[Len(old) + 1 - k]]
        ok(i) == \/ ~RequiresTarget(ins[i].type)
                 \/ TargetOf(ins[i], al) \in SeqToSet(Linkable(al))
        kept == SelectSeq(links, ok)
    IN  [k \in 1..Len(kept) |->
           [lid |-> kept[k], src |-> src, tgt |-> TargetOrNone(ins[kept[k]], al)]]

\* The triples of one source: its registered links that require no target or
\* whose target is linkable.
FoundOf(reg, ins, al, src) ==
    LET links == RegistryGet(reg, src).value
        ok(i) == \/ ~RequiresTarget(ins[i].type)
                 \/ TargetOf(ins[i], al) \in SeqToSet(Linkable(al))
        kept == SelectSeq(links, ok)
    IN  [k \in 1..Len(kept) |->
           [lid |-> kept[k], src |-> src, tgt |-> TargetOrNone(ins[kept[k]], al)]]

\* found: the triples of every linkable object, in the order of linkable.
RECURSIVE FoundFrom(_, _, _, _, _)
FoundFrom(reg, ins, al, linkable, k) ==
    IF k > Len(linkable) THEN << >>
    ELSE FoundOf(reg, ins, al, linkable[k]) \o FoundFrom(reg, ins, al, linkable, k + 1)

Found(reg, ins, al) == FoundFrom(reg, ins, al, Linkable(al), 1)

\* The triples the holoviews step appends for one source: one per plot of
\* the target of each of its links that has a `target` attribute.
RECURSIVE HvFoundOf(_, _, _, _, _)
HvFoundOf(links, ins, al, src, k) ==
    IF k > Len(links) THEN << >>
    ELSE LET plots == IF HasTargetAttr(ins[links[k]])
                      THEN PanelBokehMap(TargetOf(ins[links[k]], al)) ELSE << >>
         IN  [j \in 1..Len(plots) |-> [lid |-> links[k], src |-> src, tgt |-> plots[j]]]
             \o HvFoundOf(links, ins, al, src, k + 1)

RECURSIVE HvFoundFrom(_, _, _, _, _)
HvFoundFrom(reg, ins, al, linkable, k) ==
    IF k > Len(linkable) THEN << >>
    ELSE HvFoundOf(RegistryGet(reg, linkable[k]).value, ins, al, linkable[k], 1)
         \o HvFoundFrom(reg, ins, al, linkable, k + 1)

\* The triples appended to found when 'holoviews' is in sys.modules.
HvFound(reg, ins, al) == HvFoundFrom(reg, ins, al, Linkable(al), 1)

\* arg_overrides[id(link)]: every arg whose value is an element rendered by
\* a plot is overridden by the last of its plots.
ArgOverrides(link) ==
    LET hv(e) == PanelBokehMap(e[2]) # << >>
        sel == SelectSeq(link.args, hv)
    IN  [j \in 1..Len(sel) |->
           <<sel[j][1], PanelBokehMap(sel[j][2])[Len(PanelBokehMap(sel[j][2]))]>>]

\* RunFound with the exception of a generator caught: the loop goes on with
\* the next triple and the first exception is raised at the end.
RECURSIVE RunFoundContinue(_, _, _, _)
RunFoundContinue(st, ins, found, k) ==
    IF k > Len(found) THEN st
    ELSE LET t == found[k]
             link == ins[t.lid]
             skip == t.src = None \/ (RequiresTarget(link.type) /\ t.tgt = None)
             clean == [st EXCEPT !.outcome = "ok"]
             r == IF GeneratorOf(link.type) = None THEN Failed(clean, "KeyError")
                  ELSE IF skip THEN clean
                  ELSE Generator(clean, GeneratorOf(link.type), link, t.lid, t.src, t.tgt,
                                 ArgOverrides(link))
             nxt == [r EXCEPT !.outcome = IF st.outcome # "ok" THEN st.outcome ELSE r.outcome,
                              !.failedAt = IF st.failedAt # 0 THEN st.failedAt
                                           ELSE IF r.outcome # "ok" THEN k ELSE 0,
                              !.gens = IF skip \/ r.outcome # "ok" THEN @ ELSE Append(@, t)]
         IN  RunFoundContinue(nxt, ins, found, k + 1)

\* The loop over found. The generator of the link's type is looked up first
\* (KeyError for a type with no entry); a triple with no source, or with a
\* required target that is None, is skipped; for every other one the
\* generator is instantiated and appended to the returned list. An exception
\* leaves the loop and the method; the position of the triple that raised is
\* kept.
RECURSIVE RunFound(_, _, _, _)
RunFound(st, ins, found, k) ==
    IF k > Len(found) THEN st
    ELSE LET t == found[k]
             link == ins[t.lid]
             skip == t.src = None \/ (RequiresTarget(link.type) /\ t.tgt = None)
             nxt == IF GeneratorOf(link.type) = None THEN Failed(st, "KeyError")
                    ELSE IF skip THEN st
                    ELSE Generator(st, GeneratorOf(link.type), link, t.lid, t.src, t.tgt,
                                   ArgOverrides(link))
         IN  IF nxt.outcome # "ok" THEN [nxt EXCEPT !.failedAt = k]
             ELSE RunFound(IF skip THEN nxt ELSE [nxt EXCEPT !.gens = Append(@, t)],
                           ins, found, k + 1)

\* Callback._process_callbacks(root_view, root_model): nothing for a root
\* model of None or an empty linkable. The tree holds a HoloViews pane, so
\* 'holoviews' is in sys.modules and the triples of the holoviews step follow
\* those of the registry scan (none when no link names a holoviews element).
ProcessOp(root, reg, ins, al, cbs, props) ==
    LET st0 == [jscb |-> cbs, mprops |-> props, outcome |-> "ok", made |-> 0, failedAt |-> 0,
                gens |-> << >>, reg |-> reg]
    IN  IF root = None \/ Linkable(al) = << >> THEN st0
        ELSE RunFound([st0 EXCEPT !.reg = RegistryAfter(reg, Linkable(al), 1)],
                      ins, Found(reg, ins, al) \o HvFound(reg, ins, al), 1)

\* The renderer calls the preprocessing hook.
ProcessCallbacks(root) ==
    LET st == ProcessOp(root, registry, insts, alive, jscb, mprops) IN
    /\ jscb' = st.jscb
    /\ mprops' = st.mprops
    /\ last' = [op |-> IF root = None THEN "noroot" ELSE "process", inst |-> st.failedAt,
                arg |-> NoArg, outcome |-> st.outcome, changed |-> st.made > 0,
                gens |-> st.gens]
    /\ registry' = st.reg
    /\ UNCHANGED <<alive, held, insts, commVars, passes>>

(***************************************************************************)
(* Resolution passes that overlap: _process_callbacks step by step         *)
(***************************************************************************)
\* The pass ends, by its return or by an exception.
EndPass(p, outcome) ==
    /\ passes' = [passes EXCEPT ![p] = [Idle EXCEPT !.overlapped = passes[p].overlapped]]
    /\ last' = [NoLast EXCEPT !.op = "pass", !.inst = p, !.outcome = outcome]

PassStep(p) == last' = [NoLast EXCEPT !.op = "pass", !.inst = p]

\* Pass p starts on the root: linkable and found are built from the
\* registry. A pass that runs while another one does is marked, and so is
\* the other.
Begin(p) ==
    /\ passes[p].pc = "idle"
    /\ Linkable(alive) # << >>
    /\ passes' = [q \in PassIds |->
                    IF q = p
                    THEN [pc |-> "loop",
                          found |-> Found(registry, insts, alive) \o HvFound(registry, insts, alive),
                          k |-> 1, specs |-> << >>, s |-> 0, src |-> None,
                          overlapped |-> passes[p].overlapped
                                           \/ \E o \in PassIds \ {p} : passes[o].pc # "idle"]
                    ELSE [passes[q] EXCEPT !.overlapped = @ \/ passes[q].pc # "idle"]]
    /\ PassStep(p)
    /\ UNCHANGED <<alive, held, insts, registry, resVars, commVars>>

\* The head of the loop over found for the next triple: the lookup of the
\* generator, the skip test, and _get_specs of the generator.
NextTriple(p) ==
    LET ps == passes[p] IN
    /\ ps.pc = "loop"
    /\ IF ps.k > Len(ps.found) THEN EndPass(p, "ok")
       ELSE LET t == ps.found[ps.k]
                link == insts[t.lid]
                gen == GeneratorOf(link.type)
                skip == t.src = None \/ (RequiresTarget(link.type) /\ t.tgt = None)
                g == GetSpecs(gen, link, t.src, t.tgt)
            IN  IF gen = None THEN EndPass(p, "KeyError")
                ELSE IF skip
                     THEN passes' = [passes EXCEPT ![p].k = @ + 1] /\ PassStep(p)
                ELSE IF g.err # "ok" THEN EndPass(p, g.err)
                ELSE /\ passes' = [passes EXCEPT ![p].specs = g.specs, ![p].s = 1,
                                                  ![p].pc = "spec"]
                     /\ PassStep(p)
    /\ UNCHANGED <<alive, held, insts, registry, resVars, commVars>>

\* _init_callback of the next spec up to its dedup guard: the source model
\* is resolved and the tags of its callbacks are read.
Guard(p) ==
    LET ps == passes[p] IN
    /\ ps.pc = "spec"
    /\ IF ps.s > Len(ps.specs)
       THEN passes' = [passes EXCEPT ![p].k = @ + 1, ![p].pc = "loop"] /\ PassStep(p)
       ELSE LET t == ps.found[ps.k]
                src == ResolveModel(t.src, ps.specs[ps.s].src.prefix)
            IN  IF src.err # "ok" THEN EndPass(p, src.err)
                ELSE IF src.model = None THEN EndPass(p, "AttributeError")
                ELSE IF AlreadyAttached(jscb[src.model], t.lid)
                     THEN passes' = [passes EXCEPT ![p].s = @ + 1] /\ PassStep(p)
                ELSE /\ passes' = [passes EXCEPT ![p].pc = "attach", ![p].src = src.model]
                     /\ PassStep(p)
    /\ UNCHANGED <<alive, held, insts, registry, resVars, commVars>>

\* _init_callback after the guard: the callback is built and attached.
Attach(p) ==
    LET ps == passes[p]
        t == ps.found[ps.k]
        link == insts[t.lid]
        st0 == [jscb |-> jscb, mprops |-> mprops, outcome |-> "ok", made |-> 0, failedAt |-> 0,
                gens |-> << >>, reg |-> registry]
        r == InitCallbackTail(st0, GeneratorOf(link.type), link, t.lid, t.src, t.tgt,
                              ps.specs[ps.s], ArgOverrides(link), ps.src)
    IN  /\ ps.pc = "attach"
        /\ jscb' = r.jscb
        /\ mprops' = r.mprops
        /\ IF r.outcome # "ok" THEN EndPass(p, r.outcome)
           ELSE /\ passes' = [passes EXCEPT ![p].s = @ + 1, ![p].pc = "spec", ![p].src = None]
                /\ PassStep(p)
        /\ UNCHANGED <<alive, held, insts, registry, commVars>>

(***************************************************************************)
(* Declarations followed by resolution passes                              *)
(***************************************************************************)
PBad == << <<(<<"value">>), (<<"sub", "text">>)>> >>

PSub == << <<(<<"sub", "value">>), (<<"label">>)>> >>

PTwo == << <<(<<"value">>), (<<"text">>)>>, <<(<<"sub", "value">>), (<<"label">>)>> >>

PHalf == << <<(<<"value">>), (<<"text">>)>>, <<(<<"sub", "value">>), (<<"sub", "text">>)>> >>

SnippetCode == [none |-> FALSE, items |-> << <<(<<"value">>), "snippet">> >>]

\* The constructor calls of user code.
ResInputs ==
    { NewInst("Link", "A", "B", EmptyDict, NoCode, P1),
      NewInst("Link", "A", "B", EmptyDict, NoCode, P2),
      NewInst("Link", "A", "B", EmptyDict, NoCode, PBad),
      NewInst("Link", "A", "B", EmptyDict, NoCode, PTwo),
      NewInst("Link", "A", "B", EmptyDict, NoCode, PHalf),
      NewInst("Link", "A", "C", EmptyDict, SnippetCode, EmptyDict),
      NewInst("Link", "B", "A", EmptyDict, NoCode, P1),
      NewInst("Link", "sA", "B", EmptyDict, NoCode, PSub),
      NewInst("Callback", "A", None, EmptyDict, SnippetCode, EmptyDict) }

NextRes ==
    \/ \E a \in ResInputs : Construct(a.type, a.source, a.target, a.args, a.code, a.properties)
    \/ \E root \in {"root", None} : ProcessCallbacks(root)

SpecRes == Init /\ [][NextRes]_vars

(***************************************************************************)
(* Declarations followed by passes that overlap                            *)
(***************************************************************************)
OverlapInputs ==
    { NewInst("Link", "A", "B", EmptyDict, NoCode, P1),
      NewInst("Link", "A", "B", EmptyDict, NoCode, PBad),
      NewInst("Link", "B", "A", EmptyDict, NoCode, P1),
      NewInst("Callback", "A", None, EmptyDict, SnippetCode, EmptyDict) }

\* The registry is the same for the passes that overlap: user code declares
\* links while no pass runs.
NextOverlap ==
    \/ \E a \in OverlapInputs :
          /\ \A p \in PassIds : passes[p].pc = "idle"
          /\ Construct(a.type, a.source, a.target, a.args, a.code, a.properties)
    \/ \E p \in PassIds : Begin(p)
    \/ \E p \in PassIds : NextTriple(p)
    \/ \E p \in PassIds : Guard(p)
    \/ \E p \in PassIds : Attach(p)

SpecOverlap == Init /\ [][NextOverlap]_vars

PPlot == << <<(<<"value">>), (<<"plot", "text">>)>> >>

(***************************************************************************)
(* Resolution passes over links with args                                  *)
(***************************************************************************)
ArgsSource == << <<"source", "lit1">> >>

ArgsTarget == << <<"target", "E">> >>

ArgsTaken == << <<"target_x", "lit1">>, <<"x", "lit2">> >>

ArgsFree == << <<"target_y", "A">> >>

ArgsPlot == << <<"plot", "lit1">> >>

ArgsCbObj == << <<"cb_obj", "lit1">> >>

ArgsInputs ==
    { NewInst("Link", "A", "B", EmptyDict, NoCode, P1),
      NewInst("Link", "A", "B", ArgsSource, NoCode, P1),
      NewInst("Link", "A", "B", ArgsTarget, NoCode, P1),
      NewInst("Link", "B", "A", ArgsTaken, NoCode, P1),
      NewInst("Link", "B", "A", ArgsFree, NoCode, P1),
      NewInst("Link", "A", "E", EmptyDict, NoCode, PPlot),
      NewInst("Link", "A", "E", ArgsPlot, NoCode, PPlot),
      NewInst("Callback", "A", None, ArgsCbObj, SnippetCode, EmptyDict) }

NextArgs ==
    \/ \E a \in ArgsInputs : Construct(a.type, a.source, a.target, a.args, a.code, a.properties)
    \/ \E root \in {"root", None} : ProcessCallbacks(root)

SpecArgs == Init /\ [][NextArgs]_vars

(***************************************************************************)
(* Property changes in the browser                                         *)
(***************************************************************************)
\* The values a property is set to.
MaxValue == 3

Values == 0..MaxValue

\* Property p of model m changes to v in the browser: the change event runs
\* the callbacks attached to m for p.
Change(m, p, v) ==
    /\ mprops[m][p] # v
    /\ mprops' = RunCallbacks(jscb[m], p, [mprops EXCEPT ![m][p] = v], 1)
    /\ last' = [op |-> "change", inst |-> 0, arg |-> [NoArg EXCEPT !.source = m, !.target = p],
                outcome |-> "ok", changed |-> FALSE, gens |-> << >>]
    /\ UNCHANGED <<alive, held, insts, registry, jscb, commVars, passes>>

PLabel == << <<(<<"value">>), (<<"label">>)>> >>

JsInputs ==
    { NewInst("Link", "A", "B", EmptyDict, NoCode, P1),
      NewInst("Link", "A", "B", EmptyDict, NoCode, PLabel),
      NewInst("Callback", "A", None, EmptyDict, SnippetCode, EmptyDict) }

JsModels == {"mA", "mB"}

NextJs ==
    \/ \E a \in JsInputs : Construct(a.type, a.source, a.target, a.args, a.code, a.properties)
    \/ \E root \in {"root", None} : ProcessCallbacks(root)
    \/ \E m \in JsModels, v \in Values : Change(m, "value", v)

SpecJs == Init /\ [][NextJs]_vars

(***************************************************************************)
(* Callbacks whose args refer to objects, and the release of objects       *)
(***************************************************************************)
ArgsSelf == << <<"other", "A">> >>

GcInputs ==
    { NewInst("Callback", "A", None, EmptyDict, SnippetCode, EmptyDict),
      NewInst("Callback", "A", None, ArgsSelf, SnippetCode, EmptyDict),
      NewInst("Link", "A", "B", EmptyDict, NoCode, P1),
      NewInst("Link", "B", "A", ArgsSelf, NoCode, P1) }

GcObjs == {"A", "B"}

NextGc ==
    \/ \E a \in GcInputs : Construct(a.type, a.source, a.target, a.args, a.code, a.properties)
    \/ \E i \in 1..Len(insts) : Drop(i)
    \/ \E o \in GcObjs : Destroy(o)
    \/ \E root \in {"root", None} : ProcessCallbacks(root)

SpecGc == Init /\ [][NextGc]_vars

(***************************************************************************)
(* Resolution passes over links to holoviews elements, to objects outside  *)
(* the tree and of a type without a generator                              *)
(***************************************************************************)
HvInputs ==
    { NewInst("Link", "A", "B", EmptyDict, NoCode, P1),
      NewInst("Link", "A", "E", EmptyDict, NoCode, PPlot),
      NewInst("Link", "A", "mX", EmptyDict, NoCode, P1),
      NewInst("Link", "A", "H", EmptyDict, NoCode, P1),
      NewInst("Link", "B", "A", EmptyDict, NoCode, P1),
      NewInst("Link", "B", "E", EmptyDict, NoCode, PPlot),
      NewInst("SubLink", "B", "A", EmptyDict, NoCode, P1),
      NewInst("Callback", "A", None, EmptyDict, SnippetCode, EmptyDict) }

NextHv ==
    \/ \E a \in HvInputs : Construct(a.type, a.source, a.target, a.args, a.code, a.properties)
    \/ \E root \in {"root", None} : ProcessCallbacks(root)

SpecHv == Init /\ [][NextHv]_vars

(***************************************************************************)
(* Resolution passes over callbacks in pure-code mode                      *)
(***************************************************************************)
\* code={'value': ..., 'sub.title': ...}: two entries whose source paths
\* resolve to different models.
TwoCode == [none |-> FALSE, items |-> << <<(<<"value">>), "snippet">>,
                                         <<(<<"sub", "title">>), "snippet2">> >>]

\* code={'value': ..., 'title': ...}: two entries on one model.
TwoCodeSame == [none |-> FALSE, items |-> << <<(<<"value">>), "snippet">>,
                                             <<(<<"title">>), "snippet2">> >>]

\* code={}
EmptyCode == [none |-> FALSE, items |-> << >>]

CodeInputs ==
    { NewInst("Callback", "A", None, EmptyDict, SnippetCode, EmptyDict),
      NewInst("Callback", "A", None, EmptyDict, TwoCode, EmptyDict),
      NewInst("Callback", "A", None, EmptyDict, TwoCodeSame, EmptyDict),
      NewInst("Callback", "B", None, EmptyDict, NoCode, EmptyDict),
      NewInst("Callback", "B", None, EmptyDict, EmptyCode, EmptyDict),
      NewInst("Callback", "C", None, EmptyDict, SnippetCode, EmptyDict) }

NextCode ==
    \/ \E a \in CodeInputs : Construct(a.type, a.source, a.target, a.args, a.code, a.properties)
    \/ \E root \in {"root", None} : ProcessCallbacks(root)

SpecCode == Init /\ [][NextCode]_vars

(***************************************************************************)
(* Links resolved by several passes, with property changes in between      *)
(***************************************************************************)
\* properties={'value': 'text', 'title': 'label'}: two mappings whose source
\* paths resolve to one model.
PSync == << <<(<<"value">>), (<<"text">>)>>, <<(<<"title">>), (<<"label">>)>> >>

\* properties={'value': 'text', 'sub.value': 'name'}: two mappings whose
\* source paths resolve to different models.
PSyncSub == << <<(<<"value">>), (<<"text">>)>>, <<(<<"sub", "value">>), (<<"name">>)>> >>

SyncInputs ==
    { NewInst("Link", "A", "B", EmptyDict, NoCode, P1),
      NewInst("Link", "A", "B", EmptyDict, NoCode, PSync),
      NewInst("Link", "A", "B", EmptyDict, NoCode, PSyncSub) }

\* The properties that change in the browser: a source property and a
\* target property of the links.
SyncChanges == {<<"mA", "value">>, <<"mB", "text">>}

NextSync ==
    \/ \E a \in SyncInputs : Construct(a.type, a.source, a.target, a.args, a.code, a.properties)
    \/ \E root \in {"root", None} : ProcessCallbacks(root)
    \/ \E mp \in SyncChanges, v \in Values : Change(mp[1], mp[2], v)

SpecSync == Init /\ [][NextSync]_vars

(***************************************************************************)
(* io/notebook.py: block_comm()                                            *)
(***************************************************************************)
\* Caller c enters `with block_comm():` : the generator runs up to its yield.
Enter(c) ==
    /\ blocks[c] < MaxDepth
    /\ hold' = TRUE
    /\ blocks' = [blocks EXCEPT ![c] = @ + 1]
    /\ last' = [NoLast EXCEPT !.op = "enter"]
    /\ UNCHANGED <<alive, held, insts, registry, resVars, passes>>

\* The body of the innermost block of caller c ends normally: the generator
\* is resumed and runs the statement after its yield.
Leave(c) ==
    /\ blocks[c] > 0
    /\ hold' = FALSE
    /\ blocks' = [blocks EXCEPT ![c] = @ - 1]
    /\ last' = [NoLast EXCEPT !.op = "leave"]
    /\ UNCHANGED <<alive, held, insts, registry, resVars, passes>>

\* The body of the innermost block of caller c raises: the exception is
\* thrown into the generator at its yield, which is in no try/finally, so the
\* statement after the yield does not run and the exception leaves the block.
Raise(c) ==
    /\ blocks[c] > 0
    /\ hold' = hold
    /\ blocks' = [blocks EXCEPT ![c] = @ - 1]
    /\ last' = [NoLast EXCEPT !.op = "raise", !.outcome = "Exception"]
    /\ UNCHANGED <<alive, held, insts, registry, resVars, passes>>

NextComm ==
    \/ \E c \in Callers : Enter(c)
    \/ \E c \in Callers : Leave(c)
    \/ \E c \in Callers : Raise(c)

SpecComm == Init /\ [][NextComm]_vars

(***************************************************************************)
(* Claims about the registry                                               *)
(***************************************************************************)
\* Equivalence of two declarations as the specification states it: the same
\* concrete type, source, target and non-name parameter values.
Equivalent(a, b) ==
    /\ a.type = b.type
    /\ SourceOf(a, alive) = SourceOf(b, alive)
    /\ TargetOf(a, alive) = TargetOf(b, alive)
    /\ ParamsEq(a, b)

\* The registry list of object s, empty when s is no key.
ListOf(s) == IF s \in DOMAIN registry THEN registry[s] ELSE << >>

\* The positions of the list of s that hold an entry equivalent to ins.
EquivalentAt(s, ins) == {k \in 1..Len(ListOf(s)) : Equivalent(insts[ListOf(s)[k]], ins)}

\* The instance ids registered anywhere.
Registered == UNION {{registry[s][k] : k \in 1..Len(registry[s])} : s \in DOMAIN registry}

\* C1: constructing a Callback or Link c2 on source s while an equivalent c1
\* is in the registry list of s completes normally and does not register c2:
\* the list keeps its one equivalent entry.
C1_EquivalentConstructIsDeduplicated ==
    (/\ last.op = "construct"
     /\ last.outcome # "ValueError"
     /\ \E k \in EquivalentAt(last.arg.source, last.arg) :
            ListOf(last.arg.source)[k] # last.inst)
    => (/\ last.outcome = "ok"
        /\ ~last.changed
        /\ Cardinality(EquivalentAt(last.arg.source, last.arg)) = 1)

\* C2: unlink() of a registered Link removes that instance and nothing else:
\* the list of its source is the old list without the instance, the other
\* entries (equivalent ones too) in their order, and every other list and the
\* set of keys are the same.
C2_UnlinkRemovesExactlySelf ==
    [][(/\ last'.op = "unlink"
        /\ last'.inst \in Registered)
       => LET i == last'.inst
              s == SourceOf(insts[i], alive)
              Keep(e) == e # i
          IN  /\ last'.outcome = "ok"
              /\ registry' = [registry EXCEPT ![s] = SelectSeq(registry[s], Keep)]
              /\ Len(registry'[s]) = Len(registry[s]) - 1]_vars

\* C2 witness: a Link was unlinked while an equivalent entry and one more
\* entry stay in the list of its source.
C2_Witness ==
    /\ last.op = "unlink" /\ last.changed
    /\ Len(ListOf(last.arg.source)) >= 2
    /\ EquivalentAt(last.arg.source, last.arg) # {}

\* C3: unlink() of a Link that is not in the registry raises nothing and
\* changes nothing, however the Link came to be absent.
C3_UnlinkAbsentIsSilent ==
    (last.op = "unlink" /\ ~last.changed) => last.outcome = "ok"

C5_OneEquivalentEntry ==
    (last.op \in {"init", "link"} /\ last.arg.type = "Link")
    => (/\ last.outcome = "ok"
        /\ Cardinality(EquivalentAt(last.arg.source, last.arg)) = 1)

\* C5: init() and link() register a Link idempotently: afterwards exactly one
\* equivalent entry is registered, and a further init()/link() on the same
\* Link right after changes nothing.
C5_LinkIsIdempotent ==
    /\ []C5_OneEquivalentEntry
    /\ [][(/\ last.op \in {"init", "link"} /\ last'.op \in {"init", "link"}
           /\ last'.inst = last.inst /\ last.arg.type = "Link")
          => registry' = registry]_vars

\* C5 witness: link() re-registered a Link that had been unlinked.
C5_Witness ==
    /\ last.op = "link" /\ last.changed
    /\ Len(ListOf(last.arg.source)) >= 2
    /\ Cardinality(EquivalentAt(last.arg.source, last.arg)) = 1

(***************************************************************************)
(* Claims about the resolution pass                                        *)
(***************************************************************************)
\* The positions of the callbacks attached to model m that carry tag lid.
TagsOn(cbs, m, lid) == {k \in 1..Len(cbs[m]) : cbs[m][k].tag = lid}

\* The triples of the current registry.
FoundNow == Found(registry, insts, alive)

\* C6 (state part): no model carries two callbacks tagged with the same link.
C6_AtMostOneTagPerModel ==
    \A m \in BkModels : \A lid \in 1..Len(insts) : Cardinality(TagsOn(jscb, m, lid)) <= 1

\* C6: a resolution pass that directly follows another one on the same root
\* (no registry operation in between) attaches no listener, and at no time
\* does a model carry two callbacks tagged with the same link.
C6_RepeatedPassAttachesNothing ==
    /\ []C6_AtMostOneTagPerModel
    /\ [][(last.op = "process" /\ last'.op = "process")
          => (jscb' = jscb /\ ~last'.changed)]_vars

\* C6 witness: a pass attached nothing although links are registered and
\* callbacks of an earlier pass are in place.
C6_Witness ==
    /\ last.op = "process" /\ ~last.changed /\ last.outcome = "ok"
    /\ FoundNow # << >>
    /\ \E m \in BkModels : jscb[m] # << >>

\* The registry holds the single entry i: a Link between two different
\* rendered views with no code, no args and one property mapping p -> q of
\* plain property names.
SingleLink(i) ==
    /\ Registered = {i}
    /\ insts[i].type = "Link" /\ ~insts[i].dropped
    /\ insts[i].source \in Views /\ insts[i].target \in Views
    /\ insts[i].source # insts[i].target
    /\ ViewModel(insts[i].source) # None /\ ViewModel(insts[i].target) # None
    /\ ~CodeTruthy(insts[i].code) /\ insts[i].args = << >>
    /\ Len(insts[i].properties) = 1
    /\ Len(insts[i].properties[1][1]) = 1 /\ Len(insts[i].properties[1][2]) = 1

\* C7: with a single Link(source=A, target=B) of one property mapping and no
\* code registered, a pass leaves exactly one callback on A's model, fired by
\* the mapped source property, tagged with the link, whose references hold A's
\* model as source and cb_obj and B's model as target, and no callback on any
\* other model.
C7_OneCallbackOnSource ==
    \A i \in 1..Len(insts) :
        (last.op = "process" /\ SingleLink(i))
        => LET ms == ViewModel(insts[i].source)
               mt == ViewModel(insts[i].target)
               p == insts[i].properties[1][1][1]
           IN  /\ last.outcome = "ok"
               /\ Len(jscb[ms]) = 1
               /\ jscb[ms][1].event = Rename(insts[i].source, p)
               /\ jscb[ms][1].tag = i
               /\ jscb[ms][1].refs["source"] = ms
               /\ jscb[ms][1].refs["cb_obj"] = ms
               /\ jscb[ms][1].refs["target"] = mt
               /\ \A m \in BkModels \ {ms} : jscb[m] = << >>

\* C7 witness: a pass has run with the single Link registered.
C7_Witness ==
    /\ last.op = "process"
    /\ \E i \in 1..Len(insts) : SingleLink(i) /\ jscb[ViewModel(insts[i].source)] # << >>

\* C8: after a pass that returned normally, every registered Link in
\* property-mapping mode has, for each of its mappings, a callback tagged with
\* the link on the model the mapping's source path resolves to, fired by the
\* mapping's source leaf property.
C8_OneCallbackPerMapping ==
    (last.op = "process" /\ last.outcome = "ok")
    => \A j \in 1..Len(FoundNow) :
          LET t == FoundNow[j]
              link == insts[t.lid]
              specs == JSLinkGetSpecs(link, t.src, t.tgt).specs
          IN  (link.type = "Link" /\ ~CodeTruthy(link.code))
              => \A k \in 1..Len(specs) :
                    LET m == ResolveModel(t.src, specs[k].src.prefix).model IN
                    \E c \in TagsOn(jscb, m, t.lid) : jscb[m][c].event = specs[k].src.leaf

\* The models on which a callback tagged lid is attached.
ModelsTagged(cbs, lid) == {m \in BkModels : TagsOn(cbs, m, lid) # {}}

\* Resolving triple t in the current state returns normally.
Resolvable(t) ==
    LET st0 == [jscb |-> jscb, mprops |-> mprops, outcome |-> "ok", made |-> 0, failedAt |-> 0,
                gens |-> << >>, reg |-> registry]
    IN  Generator(st0, GeneratorOf(insts[t.lid].type), insts[t.lid], t.lid, t.src, t.tgt,
                  ArgOverrides(insts[t.lid])).outcome
          = "ok"

\* C9 as claimed: after a pass in which a triple raised, every other triple
\* that can be resolved has its callback attached.
C9_FailureAbortsOneTriple ==
    (last.op = "process" /\ last.outcome # "ok")
    => \A j \in 1..Len(FoundNow) :
          (j # last.inst /\ Resolvable(FoundNow[j]))
          => ModelsTagged(jscb, FoundNow[j].lid) # {}

\* C9 as amended: a triple that raises ends the pass. The triples before it
\* have their callbacks attached; no callback of a triple after it is attached
\* by that pass.
C9_FailureAbortsPass ==
    [][(last'.op = "process" /\ last'.outcome # "ok")
       => LET f == FoundNow
              k == last'.inst
          IN  /\ k \in 1..Len(f)
              /\ \A j \in 1..Len(f) :
                    /\ j < k => ModelsTagged(jscb', f[j].lid) # {}
                    /\ j > k => \A m \in BkModels :
                                   Cardinality(TagsOn(jscb', m, f[j].lid))
                                     = Cardinality(TagsOn(jscb, m, f[j].lid))]_vars

\* C9 witness: a pass raised at a triple that has a triple before it, whose
\* callback is attached, and a resolvable triple after it, whose callback is not.
C9_Witness ==
    /\ last.op = "process" /\ last.outcome # "ok"
    /\ 1 < last.inst /\ last.inst < Len(FoundNow)
    /\ ModelsTagged(jscb, FoundNow[1].lid) # {}
    /\ \E j \in (last.inst + 1)..Len(FoundNow) :
          Resolvable(FoundNow[j]) /\ ModelsTagged(jscb, FoundNow[j].lid) = {}

\* The triples the last pass reached: all of them, or those up to the one
\* that raised.
Reached ==
    IF last.outcome = "ok" THEN 1..Len(FoundNow) ELSE 1..last.inst

\* Spec k of a triple is reached with the dedup guard clear: it resolves its
\* source model, and every spec before it resolves a different source model
\* and a target model.
SpecIsReached(t, specs, k) ==
    /\ ResolveModel(t.src, specs[k].src.prefix).err = "ok"
    /\ ResolveModel(t.src, specs[k].src.prefix).model # None
    /\ \A h \in 1..(k - 1) :
          /\ ResolveModel(t.src, specs[h].src.prefix).err = "ok"
          /\ ResolveModel(t.src, specs[h].src.prefix).model # None
          /\ ResolveModel(t.src, specs[h].src.prefix).model
               # ResolveModel(t.src, specs[k].src.prefix).model
          /\ ResolveModel(t.tgt, specs[h].tgt.prefix).err = "ok"
          /\ ResolveModel(t.tgt, specs[h].tgt.prefix).model # None

\* C10: for a spec of a target-required link whose target resolves to no
\* model: without code the pass raises ValueError at that triple and no
\* callback of the link is on the spec's source model; with code the triple
\* does not raise and the one callback of the link on the source model has no
\* `target` reference.
C10_UnresolvedTarget ==
    last.op = "process"
    => \A j \in Reached :
          LET t == FoundNow[j]
              link == insts[t.lid]
              g == JSLinkGetSpecs(link, t.src, t.tgt)
          IN  (RequiresTarget(link.type) /\ g.err = "ok")
              => \A k \in 1..Len(g.specs) :
                    LET ms == ResolveModel(t.src, g.specs[k].src.prefix).model
                        tgt == ResolveModel(t.tgt, g.specs[k].tgt.prefix)
                    IN  (SpecIsReached(t, g.specs, k) /\ tgt.err = "ok" /\ tgt.model = None)
                        => IF ~CodeTruthy(link.code)
                           THEN /\ last.outcome = "ValueError"
                                /\ last.inst = j
                                /\ TagsOn(jscb, ms, t.lid) = {}
                           ELSE /\ last.inst # j
                                /\ Cardinality(TagsOn(jscb, ms, t.lid)) = 1
                                /\ \A c \in TagsOn(jscb, ms, t.lid) :
                                      "target" \notin DOMAIN jscb[ms][c].refs

\* C10 witness: a pass attached the callback of a Link with code whose target
\* has no model, without a target reference, and then raised ValueError at a
\* Link without code whose target path resolves to no model.
C10_Witness ==
    /\ last.op = "process" /\ last.outcome = "ValueError"
    /\ ~CodeTruthy(insts[FoundNow[last.inst].lid].code)
    /\ \E j \in 1..(last.inst - 1) :
          /\ RequiresTarget(insts[FoundNow[j].lid].type)
          /\ CodeTruthy(insts[FoundNow[j].lid].code)
          /\ FoundNow[j].tgt \in Views /\ ViewModel(FoundNow[j].tgt) = None
          /\ \E m \in BkModels : \E c \in TagsOn(jscb, m, FoundNow[j].lid) :
                "target" \notin DOMAIN jscb[m][c].refs

(***************************************************************************)
(* Claims about the order and the set of the generators of a pass          *)
(***************************************************************************)
\* The first position of a generator of link lid for source src in the list
\* a pass returned, 0 if there is none.
FirstGen(gens, lid, src) ==
    LET hits == {p \in 1..Len(gens) : gens[p].lid = lid /\ gens[p].src = src} IN
    IF hits = {} THEN 0 ELSE CHOOSE p \in hits : \A q \in hits : p <= q

\* C11 as claimed: in the list a pass returned, the first generator of a
\* link registered earlier under a source comes before the first generator of
\* a link registered later under the same source, holoviews triples included.
C11_EmissionFollowsRegistryOrder ==
    (last.op = "process" /\ last.outcome = "ok")
    => \A s \in DOMAIN registry : \A a, b \in 1..Len(registry[s]) :
          (/\ a < b
           /\ FirstGen(last.gens, registry[s][a], s) # 0
           /\ FirstGen(last.gens, registry[s][b], s) # 0)
          => FirstGen(last.gens, registry[s][a], s) < FirstGen(last.gens, registry[s][b], s)

\* C11 (returned list): the generators of the registry scan come first and
\* those of the holoviews step after them; within each of the two groups the
\* generators of one source follow the order of the registry list of the source.
C11_OrderWithinStep ==
    (last.op = "process" /\ last.outcome = "ok")
    => \A p, q \in 1..Len(last.gens) :
          p < q =>
            LET g == last.gens[p]
                h == last.gens[q]
            IN  /\ ~(g.tgt \in Plots /\ h.tgt \notin Plots)
                /\ (g.src = h.src /\ (g.tgt \in Plots <=> h.tgt \in Plots))
                   => IndexOf(ListOf(g.src), g.lid) <= IndexOf(ListOf(g.src), h.lid)

\* C11 as amended: registry order decides the order of the generators within
\* the registry scan and within the holoviews step, the holoviews triples
\* come after all triples of the registry scan, and the callbacks a pass
\* attaches to a model are attached in the order of the returned list.
C11_EmissionOrderPerStep ==
    /\ []C11_OrderWithinStep
    /\ [][(last'.op = "process" /\ last'.outcome = "ok")
          => \A m \in BkModels :
                /\ SubSeq(jscb'[m], 1, Len(jscb[m])) = jscb[m]
                /\ \A a, b \in (Len(jscb[m]) + 1)..Len(jscb'[m]) :
                      a < b =>
                        \E p, q \in 1..Len(last'.gens) :
                           /\ p <= q
                           /\ last'.gens[p].lid = jscb'[m][a].tag
                           /\ last'.gens[q].lid = jscb'[m][b].tag]_vars

\* C11 witness: a pass returned the generator of a link to a view before
\* the generator of a link to a holoviews element that was registered
\* earlier under the same source, after two generators of the registry scan
\* in registry order.
C11_Witness ==
    /\ last.op = "process" /\ last.outcome = "ok"
    /\ \E p, q, r \in 1..Len(last.gens) :
          /\ p < q /\ q < r
          /\ last.gens[p].src = last.gens[q].src /\ last.gens[q].src = last.gens[r].src
          /\ last.gens[p].tgt \notin Plots /\ last.gens[q].tgt \notin Plots
          /\ last.gens[r].tgt \in Plots
          /\ IndexOf(ListOf(last.gens[r].src), last.gens[r].lid)
               < IndexOf(ListOf(last.gens[r].src), last.gens[q].lid)
          /\ ModelsTagged(jscb, last.gens[r].lid) # {}

\* The triples a pass over the current registry goes through: those of the
\* registry scan, then those of the holoviews step.
AllFound == FoundNow \o HvFound(registry, insts, alive)

\* The types that called register_callback.
RegisteredTypes == {"Callback", "Link"}

\* C12: a pass that reaches a triple whose link is of a type with no
\* generator entry of its own raises KeyError at that triple: no generator is
\* instantiated for the link (the entry of the parent type is not used) and
\* no callback of the link is attached; every link of a registered type gets
\* the generator registered for exactly its type.
C12_UnregisteredTypeFails ==
    /\ \A t \in RegisteredTypes : GeneratorOf(t) # None
    /\ GeneratorOf("Link") # GeneratorOf("Callback")
    /\ last.op = "process"
       => \A j \in 1..Len(AllFound) :
             (/\ insts[AllFound[j].lid].type \notin RegisteredTypes
              /\ (last.outcome = "ok" \/ last.inst >= j))
             => /\ last.outcome = "KeyError"
                /\ last.inst = j
                /\ ModelsTagged(jscb, AllFound[j].lid) = {}

\* C12 witness: a pass attached the callbacks of the triples before a
\* SubLink and then raised KeyError at the SubLink.
C12_Witness ==
    /\ last.op = "process" /\ last.outcome = "KeyError"
    /\ last.inst > 1
    /\ insts[AllFound[last.inst].lid].type = "SubLink"
    /\ ModelsTagged(jscb, AllFound[1].lid) # {}
    /\ ModelsTagged(jscb, AllFound[last.inst].lid) = {}

\* C13: a resolution pass leaves the registry as it was, its keys and the
\* content and order of every list, whether it returns or raises and also
\* for a root model of None.
C13_PassLeavesRegistry ==
    [][last'.op \in {"process", "noroot"} => registry' = registry]_vars

\* C13 witness: a pass over a registry of two sources attached callbacks
\* and then raised.
C13_Witness ==
    /\ last.op = "process" /\ last.outcome # "ok" /\ last.changed
    /\ Cardinality(DOMAIN registry) >= 2

\* No registered link names a holoviews element as its target or in its
\* args: the holoviews step adds nothing.
NoHvLinks ==
    \A i \in Registered :
        TargetOf(insts[i], alive) \notin Elements /\ ArgObjs(insts[i]) \cap Elements = {}

\* The pairs (callback, source) of the linkable sources whose callback needs
\* no target or has a linkable target.
LinkablePairs ==
    {pr \in (1..Len(insts)) \X SeqToSet(Linkable(alive)) :
        /\ pr[2] \in DOMAIN registry
        /\ \E k \in 1..Len(registry[pr[2]]) : registry[pr[2]][k] = pr[1]
        /\ \/ ~RequiresTarget(insts[pr[1]].type)
           \/ TargetOf(insts[pr[1]], alive) \in SeqToSet(Linkable(alive))}

\* C17: with no holoviews element linked, a pass instantiates generators
\* only for the linkable pairs, for all of them when it returns normally, and
\* once each; a target-required link whose target is not linkable never has a
\* callback attached.
C17_GeneratorsAreLinkablePairs ==
    /\ (last.op = "process" /\ NoHvLinks)
       => /\ {<<last.gens[j].lid, last.gens[j].src>> : j \in 1..Len(last.gens)} \subseteq LinkablePairs
          /\ last.outcome = "ok"
             => /\ {<<last.gens[j].lid, last.gens[j].src>> : j \in 1..Len(last.gens)} = LinkablePairs
                /\ Len(last.gens) = Cardinality(LinkablePairs)
    /\ \A i \in 1..Len(insts) :
          (RequiresTarget(insts[i].type) /\ insts[i].target \notin SeqToSet(Tree \o RootModels)
           /\ insts[i].target \notin Elements)
          => ModelsTagged(jscb, i) = {}

\* C17 witness: a pass returned the generators of a Callback and of a Link
\* to a view while a Link to a model outside the root was registered under
\* the same source.
C17_Witness ==
    /\ last.op = "process" /\ last.outcome = "ok" /\ NoHvLinks
    /\ \E i \in Registered : insts[i].target = "mX"
    /\ \E j \in 1..Len(last.gens) : insts[last.gens[j].lid].type = "Callback"
    /\ \E j \in 1..Len(last.gens) : insts[last.gens[j].lid].type = "Link"

(***************************************************************************)
(* Claims about the references of a callback                               *)
(***************************************************************************)
\* The models the target paths of a link resolve to, for a target that is a
\* view or a model, or for the plots of a target that is an element.
TargetModels(link) ==
    LET tgts == IF link.target \in Elements THEN SeqToSet(PanelBokehMap(link.target))
                ELSE {link.target}
    IN  {ResolveModel(t, PathSpec(link.properties[k][2], t).prefix).model :
            t \in tgts, k \in 1..Len(link.properties)} \ {None}

\* C18: in every attached callback `source` and `cb_obj` refer to the model
\* the callback is attached to (the resolved source model) and, for a
\* target-required link whose target resolves, `target` refers to a model a
\* target path of the link resolves to, whatever the args and overrides hold.
C18_ReservedReferences ==
    \A m \in BkModels : \A k \in 1..Len(jscb[m]) :
        LET cb == jscb[m][k]
            link == insts[cb.tag]
        IN  /\ cb.refs["source"] = m
            /\ cb.refs["cb_obj"] = m
            /\ (RequiresTarget(link.type) /\ TargetModels(link) # {})
               => ("target" \in DOMAIN cb.refs /\ cb.refs["target"] \in TargetModels(link))

\* The value of the args of a link under key, None if the key is absent.
ArgOf(link, key) ==
    LET hits == {j \in 1..Len(link.args) : link.args[j][1] = key} IN
    IF hits = {} THEN None ELSE link.args[CHOOSE j \in hits : TRUE][2]

\* The reference an arg value becomes: the model it resolves to, or itself.
ArgRef(v) == IF ResolveModel(v, << >>).model # None THEN ResolveModel(v, << >>).model ELSE v

\* The references with a target_ prefix a callback of the link has before
\* they are processed: its args of such a name and, for a target that is an
\* element, the handle `plot` of its plot (unless an arg has that name).
PrefixedBefore(link, key) ==
    IF ArgOf(link, key) # None THEN ArgRef(ArgOf(link, key))
    ELSE IF key = "target_plot" /\ link.target \in Elements THEN "gE"
    ELSE None

\* C19 as claimed: no callback of a Link has a reference whose key carries
\* the target_ prefix.
C19_NoPrefixedReferenceLeft ==
    \A m \in BkModels : \A k \in 1..Len(jscb[m]) :
        insts[jscb[m][k].tag].type = "Link"
        => (DOMAIN jscb[m][k].refs) \cap TargetPrefixed = {}

\* C19 as amended: a reference target_<n> of a callback of a Link is renamed
\* to <n> when no reference <n> exists; when one exists (an arg of that
\* name), <n> keeps its value and target_<n> stays under its own name.
C19_PrefixStrippedUnlessTaken ==
    \A m \in BkModels : \A k \in 1..Len(jscb[m]) :
        LET refs == jscb[m][k].refs
            link == insts[jscb[m][k].tag]
        IN  link.type = "Link" =>
              \A key \in TargetPrefixed :
                 PrefixedBefore(link, key) # None =>
                    IF ArgOf(link, Strip(key)) # None
                    THEN /\ key \in DOMAIN refs /\ refs[key] = PrefixedBefore(link, key)
                         /\ refs[Strip(key)] = ArgRef(ArgOf(link, Strip(key)))
                    ELSE /\ key \notin DOMAIN refs
                         /\ Strip(key) \in DOMAIN refs
                         /\ refs[Strip(key)] = PrefixedBefore(link, key)

\* C19 witness: callbacks are attached whose prefixed reference was renamed
\* (an arg and a plot handle) and whose prefixed reference met a taken name
\* (an arg and a plot handle).
C19_Witness ==
    /\ \E m \in BkModels : \E k \in 1..Len(jscb[m]) :
          insts[jscb[m][k].tag].args = ArgsTaken /\ "target_x" \in DOMAIN jscb[m][k].refs
    /\ \E m \in BkModels : \E k \in 1..Len(jscb[m]) :
          \/ insts[jscb[m][k].tag].args = ArgsFree /\ jscb[m][k].refs["y"] = "mA"
          \/ (insts[jscb[m][k].tag].target = "E" /\ insts[jscb[m][k].tag].args = EmptyDict
              /\ jscb[m][k].refs["plot"] = "gE")

(***************************************************************************)
(* Claims about overlapping passes                                         *)
(***************************************************************************)
\* C20 as claimed: also when passes overlap, no model carries two callbacks
\* tagged with the same link.
C20_GuardHoldsUnderOverlap ==
    \A m \in BkModels : \A lid \in 1..Len(insts) : Cardinality(TagsOn(jscb, m, lid)) <= 1

\* The passes that are between the guard and the attachment of a callback
\* of link lid on model m.
Attaching(m, lid) ==
    {p \in PassIds : /\ passes[p].pc = "attach" /\ passes[p].src = m
                      /\ passes[p].found[passes[p].k].lid = lid}

\* C20 as amended: the guard gives at most one callback per model and link
\* for passes that run one after the other; passes that overlap can each
\* attach one, so a model carries at most as many callbacks tagged with one
\* link as there are passes that overlapped.
C20_AtMostOnePerOverlappingPass ==
    \A m \in BkModels : \A lid \in 1..Len(insts) :
        /\ Cardinality(TagsOn(jscb, m, lid)) + Cardinality(Attaching(m, lid))
             <= Cardinality(PassIds)
        /\ (\A p \in PassIds : ~passes[p].overlapped)
           => Cardinality(TagsOn(jscb, m, lid)) <= 1

\* C20 witness: two overlapping passes have both attached the callback of
\* one link to one model.
C20_Witness ==
    /\ \E m \in BkModels : \E lid \in 1..Len(insts) : Cardinality(TagsOn(jscb, m, lid)) = 2
    /\ \A p \in PassIds : passes[p].overlapped /\ passes[p].pc = "idle"

(***************************************************************************)
(* Claims about the lifetime of sources                                    *)
(***************************************************************************)
\* User code can reach object o: it holds o, or it holds a callback that has
\* o among its args.
HeldOutside(o) ==
    \/ o \in held
    \/ \E i \in 1..Len(insts) : o \in ArgObjs(insts[i]) /\ ~insts[i].dropped

\* The objects that are the source of a callback.
Sources == {insts[i].source : i \in 1..Len(insts)}

\* C14: a source that user code can no longer reach (the only references
\* left are those of the registry and of the callbacks stored in it) is
\* destroyed: it is no key of the registry and no pass instantiates a
\* generator for it.
C14_ReleasedSourceIsPruned ==
    \A o \in Sources : ~HeldOutside(o) =>
        /\ o \notin alive
        /\ o \notin DOMAIN registry
        /\ \A j \in 1..Len(last.gens) : last.gens[j].src # o

(***************************************************************************)
(* Claims about the default code                                           *)
(***************************************************************************)
\* C15: when property p of a source model changes to v, every callback with
\* default code attached for a mapping p -> q sets q of its target model to v
\* if the validator of q takes v and leaves q as it was if not; no error
\* reaches the caller.
C15_DefaultCodeValidates ==
    [][last'.op = "change"
       => LET m == last'.arg.source
              p == last'.arg.target
              v == mprops'[m][p]
          IN  /\ last'.outcome = "ok"
              /\ \A k \in 1..Len(jscb[m]) :
                    (jscb[m][k].event = p /\ jscb[m][k].code.kind = "default")
                    => LET t == jscb[m][k].refs["target"]
                           q == jscb[m][k].code.tgt
                       IN  /\ jscb[m][k].code.src = p
                           /\ mprops'[t][q] = IF Valid(t, q, v) THEN v ELSE mprops[t][q]]_vars

\* C15 witness: a change of a source property was rejected by the validator of
\* one target property, which kept an older value, and copied to another.
C15_Witness ==
    /\ last.op = "change"
    /\ LET m == last.arg.source
           v == mprops[m]["value"]
       IN  /\ \E k \in 1..Len(jscb[m]) :
                  /\ jscb[m][k].code.kind = "default" /\ jscb[m][k].code.tgt = "label"
                  /\ ~Valid(jscb[m][k].refs["target"], "label", v)
                  /\ mprops[jscb[m][k].refs["target"]]["label"] # v
           /\ \E k \in 1..Len(jscb[m]) :
                  /\ jscb[m][k].code.kind = "default" /\ jscb[m][k].code.tgt = "text"
                  /\ mprops[jscb[m][k].refs["target"]]["text"] = v

(***************************************************************************)
(* Claims about block_comm()                                               *)
(***************************************************************************)
\* C16: state._hold is True exactly while some block_comm() block is active,
\* after any sequence of blocks entered and left, nested ones and ones whose
\* body raised included.
C16_HoldWhileBlockActive ==
    hold <=> (\E c \in Callers : blocks[c] > 0)

(***************************************************************************)
(* Claims about pure-code mode                                             *)
(***************************************************************************)
\* The callbacks tagged lid, over all models.
TaggedCallbacks(lid) ==
    {mc \in BkModels \X (1..MaxInst * 2) : mc[2] \in TagsOn(jscb, mc[1], lid)}

\* C21: in the state a resolution pass leaves, no triple of a Callback whose
\* code is absent or empty is where the pass raised; and after a pass that
\* returned normally every Callback with k >= 1 code entries has k callbacks,
\* one per entry, on the model the entry's source path resolves to, fired by
\* the entry's source leaf property and running the entry's snippet.
C21_OneCallbackPerCodeEntry ==
    last.op = "process"
    => \A j \in 1..Len(AllFound) :
          LET t == AllFound[j]
              link == insts[t.lid]
              items == link.code.items
          IN  link.type = "Callback"
              => /\ ~CodeTruthy(link.code) => ~(last.outcome # "ok" /\ last.inst = j)
                 /\ (CodeTruthy(link.code) /\ last.outcome = "ok")
                    => /\ Cardinality(TaggedCallbacks(t.lid)) = Len(items)
                       /\ \A k \in 1..Len(items) :
                             LET sp == PathSpec(items[k][1], t.src)
                                 m == ResolveModel(t.src, sp.prefix).model
                             IN  \E c \in TagsOn(jscb, m, t.lid) :
                                    /\ jscb[m][c].event = sp.leaf
                                    /\ jscb[m][c].code.src = items[k][2]

(***************************************************************************)
(* Claims about the initial synchronization                                *)
(***************************************************************************)
\* A Link in property-mapping mode whose source and target are resolved.
SyncLink(t) ==
    /\ insts[t.lid].type = "Link" /\ ~CodeTruthy(insts[t.lid].code)
    /\ t.src # None /\ t.tgt # None

\* C22: a pass that returns normally and is the first to resolve a Link
\* (no callback of the link is attached when it starts) leaves, for every
\* mapping p -> q of the link with a resolved target model, the target
\* model's q at the value the source model's p had; and a pass that finds
\* only links resolved before copies nothing, so a target value changed
\* since is kept.
C22_InitialSyncOncePerMapping ==
    [][(last'.op = "process" /\ last'.outcome = "ok")
       => /\ \A j \in 1..Len(FoundNow) :
                LET t == FoundNow[j]
                    specs == JSLinkGetSpecs(insts[t.lid], t.src, t.tgt).specs
                IN  (SyncLink(t) /\ ModelsTagged(jscb, t.lid) = {})
                    => \A k \in 1..Len(specs) :
                          LET sm == ResolveModel(t.src, specs[k].src.prefix).model
                              tm == ResolveModel(t.tgt, specs[k].tgt.prefix).model
                          IN  (sm # None /\ tm # None)
                              => mprops'[tm][specs[k].tgt.leaf] = mprops[sm][specs[k].src.leaf]
          /\ (\A j \in 1..Len(FoundNow) : ModelsTagged(jscb, FoundNow[j].lid) # {})
             => mprops' = mprops]_vars

=============================================================================
